---- MODULE Spec2Model ----
(***************************************************************************)
(* Tic Tac Toe (React front end, src/tic_tac_toe_frontend/src/App.js).     *)
(*                                                                         *)
(* The App component holds the session state in useState hooks, changes it *)
(* in three handlers (handleClick, handleRestart, handleModeChange) and    *)
(* re-evaluates it in one effect that depends on [board, xIsNext,          *)
(* gameMode].  The effect also arms the 550 ms timer whose callback asks   *)
(* findBestMove for a cell and hands it to handleClick.                    *)
(*                                                                         *)
(* Spec    is the session: handlers, the effect, the timer callback.       *)
(* FnSpec  applies calculateWinner and findBestMove to every 9-cell board. *)
(* GameSpec plays X freely against the replies of findBestMove.            *)
(*                                                                         *)
(* A handler's state updates are batched into one render; the effect of    *)
(* that render is flushed before the event loop runs the next handler or   *)
(* timer callback, so a handler and the effect that follows it are two     *)
(* steps with nothing in between (dirty marks the state between them).     *)
(***************************************************************************)
EXTENDS Integers, Sequences, FiniteSets, TLC

VARIABLES
    board,        \* useState(Array(9).fill(null))
    xIsNext,      \* useState(true)
    gameMode,     \* useState('PVP')
    isGameActive, \* useState(true)
    status,       \* useState('')
    winnerLine,   \* useState([])
    aiThinking,   \* useState(false)
    timers,       \* pending setTimeout callbacks, each the render it closed over
    cleanup,      \* timers the last effect run's cleanup function will clear
    dirty,        \* a render with changed dependencies is committed, its effect has not run yet
    event,        \* history: the last handler or callback that ran, its argument, the state it ran in
    squares,      \* FnSpec: the board handed to the pure functions
    result,       \* FnSpec: what calculateWinner returned for squares
    move,         \* FnSpec: what findBestMove returned for squares
    fnpc,         \* FnSpec: which of the two functions have been applied; GameSpec: the side to move
    played        \* GameSpec: the cells played so far, in order (X first)

sessionVars == <<board, xIsNext, gameMode, isGameActive, status, winnerLine,
                 aiThinking, timers, cleanup, dirty, event>>
fnVars == <<squares, result, move, fnpc, played>>
vars == <<board, xIsNext, gameMode, isGameActive, status, winnerLine,
          aiThinking, timers, cleanup, dirty, event, squares, result, move, fnpc,
          played>>

(***************************************************************************)
(* Values                                                                  *)
(***************************************************************************)
\* JavaScript null as a board cell
null == "null"
Cells == 0..8
Marks == {"X", "O"}
Modes == {"PVP", "AI"}
\* Array(9).fill(null)
EmptyBoard == [i \in Cells |-> null]
\* every 9-cell array over {null, 'X', 'O'}
AllBoards == [Cells -> Marks \cup {null}]
\* calculateWinner's "return null"
NoResult == [winner |-> null, line |-> <<>>]
\* findBestMove's "return null"
NoMove == -1

\* the table with the columns listed before the rows
lines_columnsFirst ==
    << <<0,3,6>>, <<1,4,7>>, <<2,5,8>>,
       <<0,1,2>>, <<3,4,5>>, <<6,7,8>>,
       <<0,4,8>>, <<2,4,6>> >>

\* the fixed table of calculateWinner, in its scan order
lines ==
    << <<0,1,2>>, <<3,4,5>>, <<6,7,8>>,
       <<0,3,6>>, <<1,4,7>>, <<2,5,8>>,
       <<0,4,8>>, <<2,4,6>> >>

\* the test of one line: squares[a] && squares[a] === squares[b] && squares[a] === squares[c]
lineHeld(sq, l) ==
    /\ sq[l[1]] # null
    /\ sq[l[1]] = sq[l[2]]
    /\ sq[l[1]] = sq[l[3]]

\* the scan with the draw test negated: squares.includes(null)
RECURSIVE scanLines_drawInverted(_, _)
scanLines_drawInverted(sq, k) ==
    IF k > Len(lines)
    THEN IF \E i \in Cells : sq[i] = null
         THEN [winner |-> "draw", line |-> <<>>]
         ELSE NoResult
    ELSE IF lineHeld(sq, lines[k])
         THEN [winner |-> sq[lines[k][1]], line |-> lines[k]]
         ELSE scanLines_drawInverted(sq, k + 1)

\* the for loop of calculateWinner from line k on, then the draw test
RECURSIVE scanLines(_, _)
scanLines(sq, k) ==
    IF k > Len(lines)
    THEN IF \A i \in Cells : sq[i] # null
         THEN [winner |-> "draw", line |-> <<>>]
         ELSE NoResult
    ELSE IF lineHeld(sq, lines[k])
         THEN [winner |-> sq[lines[k][1]], line |-> lines[k]]
         ELSE scanLines(sq, k + 1)

\* calculateWinner without the draw result
calculateWinner_noDraw(sq) ==
    LET r == scanLines(sq, 1) IN IF r.winner = "draw" THEN NoResult ELSE r

\* the evaluator: the scan from the first line
calculateWinner(sq) == scanLines(sq, 1)

\* one of the first two loops of findBestMove from cell i on: the first empty
\* cell where placing mark makes calculateWinner report mark, NoMove if none
RECURSIVE firstCompleting(_, _, _)
firstCompleting(b, mark, i) ==
    IF i > 8 THEN NoMove
    ELSE IF b[i] = null /\ calculateWinner([b EXCEPT ![i] = mark]).winner = mark
         THEN i
         ELSE firstCompleting(b, mark, i + 1)

\* the corner list walked from the other end
cornerOrder_reversed == <<8, 6, 2, 0>>

\* for (let idx of [0,2,6,8]) if (!b[idx]) return idx
cornerOrder == <<0, 2, 6, 8>>

RECURSIVE firstEmptyIn(_, _, _)
firstEmptyIn(b, order, k) ==
    IF k > Len(order) THEN NoMove
    ELSE IF b[order[k]] = null THEN order[k]
         ELSE firstEmptyIn(b, order, k + 1)

\* the selector with the block loop ahead of the win loop
findBestMove_blockFirst(b) ==
    LET win    == firstCompleting(b, "O", 0)
        block  == firstCompleting(b, "X", 0)
        corner == firstEmptyIn(b, cornerOrder, 1)
    IN  IF block # NoMove THEN block
        ELSE IF win # NoMove THEN win
        ELSE IF b[4] = null THEN 4
        ELSE IF corner # NoMove THEN corner
        ELSE firstEmptyIn(b, <<0,1,2,3,4,5,6,7,8>>, 1)

\* the selector with the centre test ahead of the block loop
findBestMove_centreFirst(b) ==
    LET win    == firstCompleting(b, "O", 0)
        block  == firstCompleting(b, "X", 0)
        corner == firstEmptyIn(b, cornerOrder, 1)
    IN  IF win # NoMove THEN win
        ELSE IF b[4] = null THEN 4
        ELSE IF block # NoMove THEN block
        ELSE IF corner # NoMove THEN corner
        ELSE firstEmptyIn(b, <<0,1,2,3,4,5,6,7,8>>, 1)

\* the selector without the last loop (pick first free)
findBestMove_noFirstFree(b) ==
    LET win    == firstCompleting(b, "O", 0)
        block  == firstCompleting(b, "X", 0)
        corner == firstEmptyIn(b, cornerOrder, 1)
    IN  IF win # NoMove THEN win
        ELSE IF block # NoMove THEN block
        ELSE IF b[4] = null THEN 4
        ELSE corner

\* the three loops and two tests of findBestMove, in its order
findBestMove(b) ==
    LET win    == firstCompleting(b, "O", 0)
        block  == firstCompleting(b, "X", 0)
        corner == firstEmptyIn(b, cornerOrder, 1)
    IN  IF win # NoMove THEN win
        ELSE IF block # NoMove THEN block
        ELSE IF b[4] = null THEN 4
        ELSE IF corner # NoMove THEN corner
        ELSE firstEmptyIn(b, <<0,1,2,3,4,5,6,7,8>>, 1)

(***************************************************************************)
(* Handlers.  A render is the record of the state values a function        *)
(* defined in that render closes over.                                     *)
(***************************************************************************)
Render == [board |-> board, xIsNext |-> xIsNext, gameMode |-> gameMode,
           isGameActive |-> isGameActive]

\* what the last handler found: the render and the pending timers
Snapshot == [render |-> Render, timers |-> timers]

\* handleClick without the occupied-cell test
handleClick_noOccupiedCheck(r, i) ==
    IF ~r.isGameActive \/ (r.gameMode = "AI" /\ ~r.xIsNext)
    THEN [accepted |-> FALSE, board |-> r.board, xIsNext |-> r.xIsNext]
    ELSE [accepted |-> TRUE,
          board    |-> [r.board EXCEPT ![i] = IF r.xIsNext THEN "X" ELSE "O"],
          xIsNext  |-> ~r.xIsNext]

\* handleClick without the game-active test
handleClick_noActiveCheck(r, i) ==
    IF r.board[i] # null \/ (r.gameMode = "AI" /\ ~r.xIsNext)
    THEN [accepted |-> FALSE, board |-> r.board, xIsNext |-> r.xIsNext]
    ELSE [accepted |-> TRUE,
          board    |-> [r.board EXCEPT ![i] = IF r.xIsNext THEN "X" ELSE "O"],
          xIsNext  |-> ~r.xIsNext]

\* handleClick without setXIsNext(!xIsNext)
handleClick_noFlip(r, i) ==
    IF ~r.isGameActive \/ r.board[i] # null \/ (r.gameMode = "AI" /\ ~r.xIsNext)
    THEN [accepted |-> FALSE, board |-> r.board, xIsNext |-> r.xIsNext]
    ELSE [accepted |-> TRUE,
          board    |-> [r.board EXCEPT ![i] = IF r.xIsNext THEN "X" ELSE "O"],
          xIsNext  |-> r.xIsNext]

\* handleClick that always places 'X'
handleClick_alwaysX(r, i) ==
    IF ~r.isGameActive \/ r.board[i] # null \/ (r.gameMode = "AI" /\ ~r.xIsNext)
    THEN [accepted |-> FALSE, board |-> r.board, xIsNext |-> r.xIsNext]
    ELSE [accepted |-> TRUE,
          board    |-> [r.board EXCEPT ![i] = "X"],
          xIsNext  |-> ~r.xIsNext]

\* handleClick(i) run in render r: the state it sets (board, xIsNext) and
\* whether it got past the early return
handleClick(r, i) ==
    IF ~r.isGameActive \/ r.board[i] # null \/ (r.gameMode = "AI" /\ ~r.xIsNext)
    THEN [accepted |-> FALSE, board |-> r.board, xIsNext |-> r.xIsNext]
    ELSE [accepted |-> TRUE,
          board    |-> [r.board EXCEPT ![i] = IF r.xIsNext THEN "X" ELSE "O"],
          xIsNext  |-> ~r.xIsNext]

\* handleRestart without setXIsNext(true)
handleRestart_keepsTurn ==
    [board |-> EmptyBoard, xIsNext |-> xIsNext, isGameActive |-> TRUE,
     winnerLine |-> <<>>, status |-> "", aiThinking |-> FALSE]

\* handleRestart without setIsGameActive(true)
handleRestart_staysInactive ==
    [board |-> EmptyBoard, xIsNext |-> TRUE, isGameActive |-> isGameActive,
     winnerLine |-> <<>>, status |-> "", aiThinking |-> FALSE]

\* the values handleRestart sets
handleRestart ==
    [board |-> EmptyBoard, xIsNext |-> TRUE, isGameActive |-> TRUE,
     winnerLine |-> <<>>, status |-> "", aiThinking |-> FALSE]

\* the status text the effect derives for a result
winnerStatus(res, mode) ==
    IF res.winner = "draw" THEN "It's a draw!"
    ELSE IF res.winner = "X" THEN "Winner: Player 1"
    ELSE IF mode = "PVP" THEN "Winner: Player 2"
    ELSE "Winner: AI"

\* the turn texts with the two sides exchanged
turnStatus_swapped(mode, xNext) ==
    IF mode = "AI"
    THEN IF xNext THEN "AI thinking..." ELSE "Your turn (X)"
    ELSE IF xNext THEN "Turn: Player 2 (O)" ELSE "Turn: Player 1 (X)"

\* the status text the effect derives while there is no result
turnStatus(mode, xNext) ==
    IF mode = "AI"
    THEN IF xNext THEN "Your turn (X)" ELSE "AI thinking..."
    ELSE IF xNext THEN "Turn: Player 1 (X)" ELSE "Turn: Player 2 (O)"

\* whether the effect arms the timer
armsTimer(res, mode, xNext) == mode = "AI" /\ ~xNext /\ res = NoResult

\* an effect that returns no cleanup function
effectCleanup_noClear(ts, c) == ts

\* the previous run's cleanup: return () => clearTimeout(timeout)
effectCleanup(ts, c) == ts \ c

\* the <select> is disabled={!isGameActive && winnerLine.length > 0}
modeSelectEnabled == ~(~isGameActive /\ Len(winnerLine) > 0)

(***************************************************************************)
(* The session                                                             *)
(***************************************************************************)
Init ==
    /\ board = EmptyBoard
    /\ xIsNext = TRUE
    /\ gameMode = "PVP"
    /\ isGameActive = TRUE
    /\ status = ""
    /\ winnerLine = <<>>
    /\ aiThinking = FALSE
    /\ timers = {}
    /\ cleanup = {}
    /\ dirty = TRUE
    /\ event = [op |-> "mount", arg |-> null,
                pre |-> [render |-> [board |-> EmptyBoard, xIsNext |-> TRUE,
                                     gameMode |-> "PVP", isGameActive |-> TRUE],
                         timers |-> {}]]
    /\ squares = EmptyBoard
    /\ result = NoResult
    /\ move = NoMove
    /\ fnpc = "idle"
    /\ played = <<>>

\* a user click on square i: onClick={() => handleClick(idx)}
Click(i) ==
    /\ ~dirty
    /\ LET h == handleClick(Render, i)
       IN  /\ board' = h.board
           /\ xIsNext' = h.xIsNext
           /\ dirty' = h.accepted
    /\ event' = [op |-> "handleClick", arg |-> i, pre |-> Snapshot]
    /\ UNCHANGED <<gameMode, isGameActive, status, winnerLine, aiThinking,
                   timers, cleanup>>
    /\ UNCHANGED fnVars

\* the Restart Game button
Restart ==
    /\ ~dirty
    /\ board' = handleRestart.board
    /\ xIsNext' = handleRestart.xIsNext
    /\ isGameActive' = handleRestart.isGameActive
    /\ winnerLine' = handleRestart.winnerLine
    /\ status' = handleRestart.status
    /\ aiThinking' = handleRestart.aiThinking
    /\ dirty' = TRUE
    /\ event' = [op |-> "handleRestart", arg |-> null, pre |-> Snapshot]
    /\ UNCHANGED <<gameMode, timers, cleanup>>
    /\ UNCHANGED fnVars

\* the mode <select>: setGameMode(e.target.value); handleRestart()
ModeChange(v) ==
    /\ ~dirty
    /\ modeSelectEnabled
    /\ gameMode' = v
    /\ board' = handleRestart.board
    /\ xIsNext' = handleRestart.xIsNext
    /\ isGameActive' = handleRestart.isGameActive
    /\ winnerLine' = handleRestart.winnerLine
    /\ status' = handleRestart.status
    /\ aiThinking' = handleRestart.aiThinking
    /\ dirty' = TRUE
    /\ event' = [op |-> "handleModeChange", arg |-> v, pre |-> Snapshot]
    /\ UNCHANGED <<timers, cleanup>>
    /\ UNCHANGED fnVars

\* the effect on [board, xIsNext, gameMode], preceded by the cleanup the
\* previous run returned
Effect ==
    /\ dirty
    /\ LET res == calculateWinner(board)
           arm == armsTimer(res, gameMode, xIsNext)
       IN  /\ IF res # NoResult
              THEN /\ isGameActive' = FALSE
                   /\ winnerLine' = res.line
                   /\ status' = winnerStatus(res, gameMode)
              ELSE /\ isGameActive' = isGameActive
                   /\ winnerLine' = <<>>
                   /\ status' = turnStatus(gameMode, xIsNext)
           /\ aiThinking' = IF res = NoResult /\ gameMode = "AI" /\ ~xIsNext
                            THEN TRUE ELSE aiThinking
           /\ timers' = effectCleanup(timers, cleanup) \cup (IF arm THEN {Render} ELSE {})
           /\ cleanup' = IF arm THEN {Render} ELSE {}
    /\ dirty' = FALSE
    /\ UNCHANGED <<board, xIsNext, gameMode, event>>
    /\ UNCHANGED fnVars

\* the setTimeout callback armed in render t fires
Timeout(t) ==
    /\ ~dirty
    /\ t \in timers
    /\ LET m == findBestMove(t.board)
           h == IF m # NoMove THEN handleClick(t, m)
                ELSE [accepted |-> FALSE, board |-> t.board, xIsNext |-> t.xIsNext]
       IN  /\ board' = IF h.accepted THEN h.board ELSE board
           /\ xIsNext' = IF h.accepted THEN h.xIsNext ELSE xIsNext
           /\ dirty' = h.accepted
           /\ event' = [op |-> "timeout", arg |-> m, pre |-> Snapshot]
    /\ aiThinking' = FALSE
    /\ timers' = timers \ {t}
    /\ UNCHANGED <<gameMode, isGameActive, status, winnerLine, cleanup>>
    /\ UNCHANGED fnVars

Next ==
    \/ \E i \in Cells : Click(i)
    \/ Restart
    \/ \E v \in Modes : ModeChange(v)
    \/ Effect
    \/ \E t \in timers : Timeout(t)

Spec == Init /\ [][Next]_vars

(***************************************************************************)
(* The session with the progress the event loop and the players give: the  *)
(* effect of a committed render always runs, and the players keep          *)
(* clicking empty cells (a click that is accepted is not put off for       *)
(* ever).                                                                  *)
(***************************************************************************)
AcceptedClick == \E i \in Cells : Click(i) /\ board' # board

LiveSpec == Init /\ [][Next]_vars /\ WF_vars(Effect) /\ SF_vars(AcceptedClick)

(***************************************************************************)
(* The two pure functions applied to every 9-cell board                    *)
(***************************************************************************)
InitFn ==
    /\ board = EmptyBoard
    /\ xIsNext = TRUE
    /\ gameMode = "PVP"
    /\ isGameActive = TRUE
    /\ status = ""
    /\ winnerLine = <<>>
    /\ aiThinking = FALSE
    /\ timers = {}
    /\ cleanup = {}
    /\ dirty = TRUE
    /\ event = [op |-> "mount", arg |-> null,
                pre |-> [render |-> [board |-> EmptyBoard, xIsNext |-> TRUE,
                                     gameMode |-> "PVP", isGameActive |-> TRUE],
                         timers |-> {}]]
    /\ squares \in AllBoards
    /\ result = NoResult
    /\ move = NoMove
    /\ fnpc = "start"
    /\ played = <<>>

\* const result = calculateWinner(squares)
Evaluate ==
    /\ fnpc = "start"
    /\ result' = calculateWinner(squares)
    /\ fnpc' = "evaluated"
    /\ UNCHANGED <<squares, move, played>>
    /\ UNCHANGED sessionVars

\* const move = findBestMove(squares)
Select ==
    /\ fnpc = "evaluated"
    /\ move' = findBestMove(squares)
    /\ fnpc' = "selected"
    /\ UNCHANGED <<squares, result, played>>
    /\ UNCHANGED sessionVars

NextFn == Evaluate \/ Select

FnSpec == InitFn /\ [][NextFn]_vars

(***************************************************************************)
(* A game of X against the selector: X takes any empty cell, O takes the   *)
(* cell findBestMove returns for the board, each mark is placed the way    *)
(* handleClick places it, and play stops when calculateWinner reports a    *)
(* result.                                                                 *)
(***************************************************************************)
InitGame ==
    /\ board = EmptyBoard
    /\ xIsNext = TRUE
    /\ gameMode = "PVP"
    /\ isGameActive = TRUE
    /\ status = ""
    /\ winnerLine = <<>>
    /\ aiThinking = FALSE
    /\ timers = {}
    /\ cleanup = {}
    /\ dirty = TRUE
    /\ event = [op |-> "mount", arg |-> null,
                pre |-> [render |-> [board |-> EmptyBoard, xIsNext |-> TRUE,
                                     gameMode |-> "PVP", isGameActive |-> TRUE],
                         timers |-> {}]]
    /\ squares = EmptyBoard
    /\ result = NoResult
    /\ move = NoMove
    /\ fnpc = "X"
    /\ played = <<>>

\* the render a mark is placed in: the side to move acts for itself
GameRender == [board |-> squares, xIsNext |-> (fnpc = "X"), gameMode |-> "PVP",
               isGameActive |-> (result = NoResult)]

\* X clicks cell i
XMove(i) ==
    /\ fnpc = "X"
    /\ LET h == handleClick(GameRender, i)
       IN  /\ h.accepted
           /\ squares' = h.board
           /\ result' = calculateWinner(h.board)
    /\ fnpc' = "O"
    /\ played' = Append(played, i)
    /\ UNCHANGED move
    /\ UNCHANGED sessionVars

\* O plays the cell findBestMove returns: if (move !== null) handleClick(move)
OMove ==
    /\ fnpc = "O"
    /\ LET m == findBestMove(squares)
           h == handleClick(GameRender, m)
       IN  /\ m # NoMove
           /\ h.accepted
           /\ squares' = h.board
           /\ result' = calculateWinner(h.board)
           /\ move' = m
           /\ played' = Append(played, m)
    /\ fnpc' = "X"
    /\ UNCHANGED sessionVars

NextGame == (\E i \in Cells : XMove(i)) \/ OMove

GameSpec == InitGame /\ [][NextGame]_vars

(***************************************************************************)
(* Vocabulary of the properties, written without the program's operators   *)
(***************************************************************************)
\* the eight lines in the order rows, columns, diagonals
rowLine(r) == <<3 * r, 3 * r + 1, 3 * r + 2>>
colLine(c) == <<c, c + 3, c + 6>>
ScanOrder == <<rowLine(0), rowLine(1), rowLine(2),
               colLine(0), colLine(1), colLine(2),
               <<0, 4, 8>>, <<2, 4, 6>> >>

\* line l of board b carries three identical marks
Completed(b, l) == b[l[1]] \in Marks /\ b[l[2]] = b[l[1]] /\ b[l[3]] = b[l[1]]
CompletedLines(b) == {k \in 1..8 : Completed(b, ScanOrder[k])}
NoCompletedLine(b) == CompletedLines(b) = {}
Full(b) == \A i \in Cells : b[i] \in Marks
MarkCount(b, m) == Cardinality({i \in Cells : b[i] = m})

\* the empty cells of b that would complete a line for mark m: a line through
\* the cell whose two other cells both hold m
Completing(b, m) ==
    {i \in Cells : /\ b[i] = null
                   /\ \E k \in 1..8 :
                        /\ \E p \in 1..3 : ScanOrder[k][p] = i
                        /\ \A p \in 1..3 : ScanOrder[k][p] # i => b[ScanOrder[k][p]] = m}
Lowest(S) == CHOOSE i \in S : \A j \in S : i <= j

\* the game has a result on board b
HasResult(b) == ~NoCompletedLine(b) \/ Full(b)

(***************************************************************************)
(* C1  In versus-computer mode, when the delay fires after an accepted X   *)
(* move that left no result, the cell findBestMove chooses for the board   *)
(* is marked O and the turn returns to X.                                  *)
(***************************************************************************)
C1_TimeoutPlacesO ==
    (/\ event.op = "timeout"
     /\ event.pre.render.gameMode = "AI"
     /\ ~event.pre.render.xIsNext
     /\ ~HasResult(event.pre.render.board))
    => /\ event.arg \in Cells
       /\ board = [event.pre.render.board EXCEPT ![event.arg] = "O"]
       /\ xIsNext

(***************************************************************************)
(* C2  A computer move armed before a restart or mode change is never      *)
(* applied afterwards: once the effect that follows a change of board,     *)
(* turn or mode has run, every timer still pending was armed for the       *)
(* current board, turn and mode, and none is pending after a reset.        *)
(***************************************************************************)
C2_NoStaleTimer ==
    ~dirty =>
        /\ \A t \in timers :
                t.board = board /\ t.xIsNext = xIsNext /\ t.gameMode = gameMode
        /\ event.op \in {"handleRestart", "handleModeChange"} => timers = {}

\* a reset that found a timer pending has been handled
C2_Witness ==
    /\ ~dirty
    /\ event.op \in {"handleRestart", "handleModeChange"}
    /\ event.pre.timers # {}
    /\ timers = {}

(***************************************************************************)
(* C3  A click on an occupied cell, a click while the game is not active,  *)
(* and a click in versus-computer mode on O's turn change neither the      *)
(* board nor the turn nor the game-active flag nor the mode.               *)
(***************************************************************************)
C3_RejectedClickIsNoOp ==
    (/\ event.op = "handleClick"
     /\ \/ event.pre.render.board[event.arg] # null
        \/ ~event.pre.render.isGameActive
        \/ event.pre.render.gameMode = "AI" /\ ~event.pre.render.xIsNext)
    => /\ board = event.pre.render.board
       /\ xIsNext = event.pre.render.xIsNext
       /\ isGameActive = event.pre.render.isGameActive
       /\ gameMode = event.pre.render.gameMode

\* a click on an empty cell was made on the computer's turn
C3_Witness ==
    /\ event.op = "handleClick"
    /\ event.pre.render.gameMode = "AI"
    /\ ~event.pre.render.xIsNext
    /\ event.pre.render.isGameActive
    /\ event.pre.render.board[event.arg] = null

(***************************************************************************)
(* C4  After handleRestart and after handleModeChange the board is empty,  *)
(* X is to move, the game is active and the winning line is empty; once    *)
(* the effect has run no computer move is pending; a mode change leaves    *)
(* the selected mode, a restart leaves the mode it found.                  *)
(***************************************************************************)
C4_ResetState ==
    event.op \in {"handleRestart", "handleModeChange"} =>
        /\ board = EmptyBoard
        /\ xIsNext
        /\ isGameActive
        /\ winnerLine = <<>>
        /\ ~dirty => timers = {}
        /\ event.op = "handleModeChange" => gameMode = event.arg
        /\ event.op = "handleRestart" => gameMode = event.pre.render.gameMode

\* a finished game was restarted
C4_Witness ==
    /\ ~dirty
    /\ event.op = "handleRestart"
    /\ ~event.pre.render.isGameActive
    /\ ~event.pre.render.xIsNext
    /\ HasResult(event.pre.render.board)

(***************************************************************************)
(* C5  Once a move has produced a result, the effect marks the game not    *)
(* active and records the outcome, and only a restart or a mode change     *)
(* changes the board from then on.                                         *)
(***************************************************************************)
C5_FrozenAfterResult ==
    /\ (~dirty /\ HasResult(board)) =>
            /\ ~isGameActive
            /\ winnerLine = (IF NoCompletedLine(board) THEN <<>>
                             ELSE ScanOrder[Lowest(CompletedLines(board))])
            /\ status = (IF NoCompletedLine(board) THEN "It's a draw!"
                         ELSE IF board[winnerLine[1]] = "X" THEN "Winner: Player 1"
                         ELSE IF gameMode = "PVP" THEN "Winner: Player 2"
                         ELSE "Winner: AI")
    /\ (HasResult(event.pre.render.board)
        /\ event.op \notin {"handleRestart", "handleModeChange"}) =>
            board = event.pre.render.board

\* a cell that is still empty was clicked after a line was completed
C5_Witness ==
    /\ ~dirty
    /\ event.op = "handleClick"
    /\ ~NoCompletedLine(event.pre.render.board)
    /\ event.pre.render.board[event.arg] = null
    /\ ~isGameActive

(***************************************************************************)
(* C6  Every cell holds at most one mark, the number of X marks minus the  *)
(* number of O marks is 0 or 1, and the marks alternate starting with X:   *)
(* X is to move exactly when the two counts are equal.                     *)
(***************************************************************************)
C6_MarksAlternate ==
    /\ board \in AllBoards
    /\ MarkCount(board, "X") - MarkCount(board, "O") \in {0, 1}
    /\ xIsNext <=> (MarkCount(board, "X") = MarkCount(board, "O"))

\* a board filled by nine alternating moves
C6_Witness ==
    /\ Full(board)
    /\ MarkCount(board, "X") = 5
    /\ MarkCount(board, "O") = 4

(***************************************************************************)
(* C7  For every 9-cell board on which some line carries three identical   *)
(* marks, calculateWinner returns that mark and the index triple of the    *)
(* first such line in the order rows, columns, diagonals.                  *)
(***************************************************************************)
C7_FirstCompletedLine ==
    (fnpc # "start" /\ ~NoCompletedLine(squares)) =>
        LET l == ScanOrder[Lowest(CompletedLines(squares))]
        IN  result = [winner |-> squares[l[1]], line |-> l]

\* a board with a completed column and a completed diagonal has been
\* evaluated and the column, which comes first, was returned
C7_Witness ==
    /\ fnpc = "evaluated"
    /\ Cardinality(CompletedLines(squares)) = 2
    /\ \E j \in CompletedLines(squares) : j \in 4..6
    /\ \E k \in CompletedLines(squares) : k \in 7..8
    /\ result.line = ScanOrder[Lowest(CompletedLines(squares))]

(***************************************************************************)
(* C8  For every 9-cell board with no completed line, calculateWinner      *)
(* returns a draw with an empty line if no cell is empty and no result if  *)
(* some cell is empty.                                                     *)
(***************************************************************************)
C8_DrawOrNoResult ==
    (fnpc # "start" /\ NoCompletedLine(squares)) =>
        IF Full(squares)
        THEN result = [winner |-> "draw", line |-> <<>>]
        ELSE result = NoResult

\* a full board without a line has been evaluated
C8_Witness ==
    /\ fnpc = "evaluated"
    /\ NoCompletedLine(squares)
    /\ Full(squares)
    /\ result.winner = "draw"

(***************************************************************************)
(* C9  On a board the effect can hand to findBestMove (no line completed), *)
(* whenever some empty cell would complete a line for O, findBestMove      *)
(* returns the lowest-index such cell, also when a cell that blocks X or   *)
(* the centre is free.                                                     *)
(***************************************************************************)
C9_WinFirst ==
    (/\ fnpc = "selected"
     /\ NoCompletedLine(squares)
     /\ Completing(squares, "O") # {})
    => move = Lowest(Completing(squares, "O"))

\* O can win, X can be blocked at a lower cell, and the centre is free
C9_Witness ==
    /\ fnpc = "selected"
    /\ NoCompletedLine(squares)
    /\ Completing(squares, "O") # {}
    /\ Completing(squares, "X") # {}
    /\ Lowest(Completing(squares, "X")) < Lowest(Completing(squares, "O"))
    /\ squares[4] = null
    /\ 4 \notin Completing(squares, "O")
    /\ move = Lowest(Completing(squares, "O"))

(***************************************************************************)
(* C10 On a board with no line completed, when no empty cell completes a   *)
(* line for O but some empty cell would complete a line for X,             *)
(* findBestMove returns the lowest-index such cell, whether or not the     *)
(* centre or a corner is free.                                             *)
(***************************************************************************)
C10_BlockSecond ==
    (/\ fnpc = "selected"
     /\ NoCompletedLine(squares)
     /\ Completing(squares, "O") = {}
     /\ Completing(squares, "X") # {})
    => move = Lowest(Completing(squares, "X"))

\* X threatens an edge cell while the centre and a corner are free
C10_Witness ==
    /\ fnpc = "selected"
    /\ NoCompletedLine(squares)
    /\ Completing(squares, "O") = {}
    /\ Completing(squares, "X") # {}
    /\ squares[4] = null
    /\ squares[0] = null
    /\ move \in {1, 3, 5, 7}


(***************************************************************************)
(* C11 findBestMove returns "no move" exactly when the board has no empty  *)
(* cell; on every board with an empty cell it returns an index in 0..8     *)
(* whose cell is empty on that board.                                      *)
(***************************************************************************)
C11_MoveIsAnEmptyCell ==
    fnpc = "selected" =>
        /\ (move = NoMove) <=> (\A i \in Cells : squares[i] # null)
        /\ (\E i \in Cells : squares[i] = null) =>
                (move \in Cells /\ squares[move] = null)

\* only edge cells are empty and none of them wins or blocks
C11_Witness ==
    /\ fnpc = "selected"
    /\ NoCompletedLine(squares)
    /\ Completing(squares, "O") = {}
    /\ Completing(squares, "X") = {}
    /\ \A i \in {0, 2, 4, 6, 8} : squares[i] # null
    /\ \E i \in {1, 3, 5, 7} : squares[i] = null
    /\ move \in {1, 3, 5, 7}

(***************************************************************************)
(* C12 On a board with no line completed, when no empty cell completes a   *)
(* line for O or for X, findBestMove returns 4 if cell 4 is empty,         *)
(* otherwise the first empty cell among 0, 2, 6, 8 in that order,          *)
(* otherwise the lowest-index empty cell.                                  *)
(***************************************************************************)
C12_CentreCornerAny ==
    (/\ fnpc = "selected"
     /\ NoCompletedLine(squares)
     /\ Completing(squares, "O") = {}
     /\ Completing(squares, "X") = {}
     /\ \E i \in Cells : squares[i] = null)
    => LET emptyCorners == {i \in {0, 2, 6, 8} : squares[i] = null}
           emptyCells   == {i \in Cells : squares[i] = null}
       IN  move = IF squares[4] = null THEN 4
                  ELSE IF emptyCorners # {} THEN Lowest(emptyCorners)
                  ELSE Lowest(emptyCells)

\* the centre is taken and two corners are free: the earlier one is chosen
C12_Witness ==
    /\ fnpc = "selected"
    /\ NoCompletedLine(squares)
    /\ Completing(squares, "O") = {}
    /\ Completing(squares, "X") = {}
    /\ squares[4] # null
    /\ squares[0] # null
    /\ squares[2] = null
    /\ squares[8] = null
    /\ move = 2


(***************************************************************************)
(* C13 In every settled state of a game that has ended in a win, every     *)
(* cell of every completed line on the board is highlighted, that is, is   *)
(* a member of winnerLine (Square highlight={winnerLine.includes(idx)}).   *)
(***************************************************************************)
C13_AllWinningCellsHighlighted ==
    (~dirty /\ ~NoCompletedLine(board)) =>
        \A k \in CompletedLines(board) : \A p \in 1..3 :
            \E q \in 1..Len(winnerLine) : winnerLine[q] = ScanOrder[k][p]

(***************************************************************************)
(* C14 In every settled state the status line reflects the game: with no   *)
(* result it names the side to move (Player 1 (X) / Player 2 (O) in        *)
(* two-player mode, the user's turn / the AI thinking in computer mode),   *)
(* with a completed line it names the winner (Player 1 for X; Player 2 or  *)
(* AI for O), with a full board and no line it announces a draw.           *)
(***************************************************************************)
C14_StatusReflectsGame ==
    ~dirty =>
        status =
            IF ~NoCompletedLine(board)
            THEN IF board[ScanOrder[Lowest(CompletedLines(board))][1]] = "X"
                 THEN "Winner: Player 1"
                 ELSE IF gameMode = "PVP" THEN "Winner: Player 2" ELSE "Winner: AI"
            ELSE IF Full(board) THEN "It's a draw!"
            ELSE IF gameMode = "PVP"
                 THEN IF xIsNext THEN "Turn: Player 1 (X)" ELSE "Turn: Player 2 (O)"
                 ELSE IF xIsNext THEN "Your turn (X)" ELSE "AI thinking..."

\* O has won a two-player game and the status names Player 2
C14_Witness ==
    /\ ~dirty
    /\ gameMode = "PVP"
    /\ \E k \in CompletedLines(board) : board[ScanOrder[k][1]] = "O"
    /\ status = "Winner: Player 2"

(***************************************************************************)
(* C15 A click that changes anything changes exactly the clicked cell,     *)
(* from empty to the mark of the side whose turn it was, leaves the other  *)
(* eight cells and the mode as they were and flips the turn; nothing but   *)
(* a restart or a mode change clears or overwrites an occupied cell.       *)
(***************************************************************************)
C15_MoveFrame ==
    /\ (/\ event.op = "handleClick"
        /\ (board # event.pre.render.board \/ xIsNext # event.pre.render.xIsNext))
       => /\ event.pre.render.board[event.arg] = null
          /\ board = [event.pre.render.board EXCEPT
                        ![event.arg] = IF event.pre.render.xIsNext THEN "X" ELSE "O"]
          /\ xIsNext = ~event.pre.render.xIsNext
          /\ gameMode = event.pre.render.gameMode
    /\ event.op \notin {"handleRestart", "handleModeChange"} =>
            \A i \in Cells : event.pre.render.board[i] # null =>
                                board[i] = event.pre.render.board[i]

\* O's click on an empty cell of a board that already holds marks was accepted
C15_Witness ==
    /\ event.op = "handleClick"
    /\ board # event.pre.render.board
    /\ ~event.pre.render.xIsNext
    /\ board[event.arg] = "O"
    /\ MarkCount(event.pre.render.board, "X") >= 2

(***************************************************************************)
(* C16 (as stated) Under alternating play from the empty board no          *)
(* reachable board has two distinct completed lines at the same time.      *)
(***************************************************************************)
C16_AtMostOneLine == Cardinality(CompletedLines(board)) <= 1

(***************************************************************************)
(* C16 (amended) A reachable board has at most two completed lines; when   *)
(* it has two they carry the same mark and share exactly one cell (one     *)
(* move completed both), and the line recorded is the first of them in     *)
(* the scan order.                                                         *)
(***************************************************************************)
C16_TwoLinesShareACell ==
    /\ Cardinality(CompletedLines(board)) <= 2
    /\ \A j, k \in CompletedLines(board) :
            j # k =>
                /\ board[ScanOrder[j][1]] = board[ScanOrder[k][1]]
                /\ Cardinality({ScanOrder[j][p] : p \in 1..3}
                               \cap {ScanOrder[k][p] : p \in 1..3}) = 1
    /\ (~dirty /\ ~NoCompletedLine(board)) =>
            winnerLine = ScanOrder[Lowest(CompletedLines(board))]

\* one move has completed two lines and the first one was recorded
C16_Witness ==
    /\ ~dirty
    /\ Cardinality(CompletedLines(board)) = 2
    /\ winnerLine = ScanOrder[Lowest(CompletedLines(board))]

(***************************************************************************)
(* C18 In every settled state the game-active flag is false exactly when   *)
(* the board has a result (a completed line or no empty cell).             *)
(***************************************************************************)
C18_ActiveIffNoResult == ~dirty => (~isGameActive <=> HasResult(board))

\* a drawn game was restarted and is active again
C18_Witness ==
    /\ ~dirty
    /\ event.op = "handleRestart"
    /\ Full(event.pre.render.board)
    /\ NoCompletedLine(event.pre.render.board)
    /\ isGameActive

(***************************************************************************)
(* C19 No reachable board holds a completed line of X and a completed line *)
(* of O at the same time.                                                  *)
(***************************************************************************)
C19_OneWinner ==
    ~\E j, k \in CompletedLines(board) :
        board[ScanOrder[j][1]] = "X" /\ board[ScanOrder[k][1]] = "O"

\* O has won while X was one move from a line of its own
C19_Witness ==
    /\ ~dirty
    /\ ~isGameActive
    /\ \E k \in CompletedLines(board) : board[ScanOrder[k][1]] = "O"
    /\ Completing(board, "X") # {}


(***************************************************************************)
(* C17 The selector does not guarantee the computer a draw: from the empty *)
(* board, with X first and every O move the cell findBestMove returns,     *)
(* there are X moves after which X holds a line.  X's moves 0, 8, 6, 7     *)
(* are such a sequence: the selector answers 4, 2, 3 and X completes       *)
(* [6,7,8].                                                                *)
(***************************************************************************)
C17_XBeatsSelector ==
    LET n == Len(played)
    IN  /\ (n >= 2 /\ played[1] = 0) => played[2] = 4
        /\ (n >= 4 /\ played[1] = 0 /\ played[3] = 8) => played[4] = 2
        /\ (n >= 6 /\ played[1] = 0 /\ played[3] = 8 /\ played[5] = 6) =>
                played[6] = 3
        /\ (n >= 7 /\ played[1] = 0 /\ played[3] = 8 /\ played[5] = 6
                   /\ played[7] = 7) =>
                result = [winner |-> "X", line |-> <<6, 7, 8>>]

\* X holds a line after every O move was the selector's
C17_Witness ==
    /\ played = <<0, 4, 8, 2, 6, 3, 7>>
    /\ result.winner = "X"
    /\ Completed(squares, <<6, 7, 8>>)
    /\ MarkCount(squares, "O") = 3


(***************************************************************************)
(* C20 In two-player mode every game ends: the accepted moves since the    *)
(* last reset are the marks on the board, at most 9, and a settled full    *)
(* board is never active; while the players keep clicking empty cells an   *)
(* active game leads to a state where it is not active (with a win or a    *)
(* draw), unless a restart or mode change comes first.                     *)
(***************************************************************************)
C20_TwoPlayerGameEnds ==
    /\ [](gameMode = "PVP" /\ ~dirty /\ Full(board) => ~isGameActive /\ HasResult(board))
    /\ (gameMode = "PVP" /\ isGameActive)
         ~> \/ ~isGameActive /\ HasResult(board)
            \/ dirty /\ event.op \in {"handleRestart", "handleModeChange"}

\* the ninth accepted move has ended a two-player game
C20_Witness ==
    /\ gameMode = "PVP"
    /\ ~dirty
    /\ event.op = "handleClick"
    /\ MarkCount(event.pre.render.board, "X") + MarkCount(event.pre.render.board, "O") = 8
    /\ Full(board)
    /\ ~isGameActive

====
